---- MODULE Spec2Model ----
(***************************************************************************)
(* The candle bulk fetch of the data-collection scripts:                   *)
(*   CoinbaseDataFetcher.fetch_complete_historical_data  (5-min-btc-usd.py)*)
(*   CoinbaseETHDailyDataFetcher.fetch_daily_historical_data               *)
(*                                                      (daily-eth-usd.py) *)
(* Times are whole seconds counted from 2020-01-01T00:00:00; the process's  *)
(* local time is UTC, so a datetime and the Unix time sent for it name the  *)
(* same instant as the timestamps of the candles received.  A data frame    *)
(* is a sequence of rows; a row carries the timestamp column, one value    *)
(* column (close) and a history field src naming the request that returned *)
(* it (<<window start>>), or <<>> for a row read from the checkpoint file. *)
(***************************************************************************)
EXTENDS Integers, Sequences, FiniteSets, TLC

VARIABLES
    prog,             \* "btc": fetch_complete_historical_data, "eth": fetch_daily_historical_data,
                      \* "incidents": fetch_all_incidents
    start_date,       \* argument start_date
    end_date,         \* argument end_date
    granularity,      \* argument granularity (seconds per candle)
    market,           \* which candles the remote source holds
    mode,             \* how the source reads a (start, end) request
    script,           \* the faults the source will answer with, per request_count
    cpFile,           \* btc_usd_checkpoint_complete.csv
    failFile,         \* failed_requests.txt
    pc,               \* "init", "fetching", "done", "crashed", "killed";
                      \* fetch_all_incidents: "paging", "returned"
    all_data,         \* list of data frames
    current_start,
    request_count,
    retry_count,
    failed_requests,
    result,           \* the returned value
    run,              \* how many times the script has been started
    log,              \* history: the requests sent in this run
    cpAtStart,        \* history: the checkpoint file as this run found it
    printed,          \* what this run has printed about failed windows
    prevLog,          \* history: the requests the terminated run before this one sent
    saving,           \* history: the checkpoint write a kill interrupted (old and new file)
    events,           \* history: the requests sent and the sleeps taken, in order
    page,             \* fetch_all_incidents: page
    has_more,         \* fetch_all_incidents: has_more
    all_incidents,    \* fetch_all_incidents: all_incidents
    pages_log,        \* history: the page requests sent and their answers
    utc_offset,       \* the local time zone of the process, in hours east of UTC
    all_klines,       \* get_hourly_klines: all_klines
    current_date,     \* get_hourly_open_interest: current_date
    all_oi_data,      \* get_hourly_open_interest: all_oi_data
    end_time,         \* get_hourly_funding_rates: end_time
    all_funding,      \* get_hourly_funding_rates: all_funding
    start_block,      \* fetch_token_events: argument start_block
    end_block,        \* fetch_token_events: argument end_block
    max_events,       \* fetch_token_events: argument max_events
    token_events      \* fetch_token_events: events

vars == <<prog, start_date, end_date, granularity, market, mode, script, cpFile,
          failFile, pc, all_data, current_start, request_count, retry_count,
          failed_requests, result, run, log, cpAtStart, printed, prevLog,
          saving, events, page, has_more, all_incidents, pages_log, utc_offset,
          all_klines, current_date, all_oi_data, end_time, all_funding,
          start_block, end_block, max_events, token_events>>

args == <<prog, start_date, end_date, granularity, market, mode>>

\* what is remembered of terminated runs
hist == <<prevLog, saving>>

\* the state of fetch_all_incidents
paging == <<page, has_more, all_incidents, pages_log>>

\* the state of BinanceHourlyHistoricalData's fetches (leverage-data.py)
leverage == <<utc_offset, all_klines, current_date, all_oi_data, end_time, all_funding>>

\* the state of fetch_token_events (mint.py)
minting == <<start_block, end_block, max_events, token_events>>

-----------------------------------------------------------------------------
(* Program constants *)

\* 300 candles per request: batch_seconds = 300 * granularity, days_per_request = 300
MaxPerRequest == 300
\* max_retries = 3
MaxRetries == 3
\* if request_count % 100 == 0: save checkpoint
CheckpointInterval == 100
\* default granularity of fetch_complete_historical_data: 5 minutes
FiveMinutes == 300
\* granularity=86400 passed by fetch_daily_historical_data
OneDay == 86400
\* keys of granularity_map
GranularityMap == {60, 300, 900, 3600, 21600, 86400}

(* Bounds of the model *)

\* longest run of consecutive faults the source answers one window with
MaxFaults == 4
\* the windows (by request_count) the source may answer with faults: 1..MaxFaultyOrdinal
MaxFaultyOrdinal == 2
\* how many times the script is started (first run plus restarts)
MaxRuns == 2
\* a long range covers CheckpointInterval full windows plus this many more
ExtraWindows == 3

-----------------------------------------------------------------------------
(* Values *)

\* pandas NaT: the max() of an empty timestamp column; NaT + timedelta is NaT and
\* every comparison with NaT is False
NaT == -2000000000

None == [none |-> TRUE, rows |-> <<>>]
Frame(rows) == [none |-> FALSE, rows |-> rows]

Min(a, b) == IF a <= b THEN a ELSE b

\* timedelta arithmetic and comparison of timestamps, NaT included
AddSeconds(t, d) == IF t = NaT THEN NaT ELSE t + d
Before(a, b) == a # NaT /\ b # NaT /\ a < b

\* the value columns of the candle at time t (the source is a fixed data set)
Price(t) == ((t \div 300) % 7) + 1

Candle(t, src) == [timestamp |-> t, close |-> Price(t), src |-> src]

-----------------------------------------------------------------------------
(* The remote source *)

\* what the source can answer a request with, other than a candle list
FaultKinds == {"e429", "e500", "e404", "timeout", "badjson"}

CeilDiv(a, b) == (a + b - 1) \div b

\* Whether the source holds a candle at time t.  Candles sit on the granularity
\* grid.  "complete": one at every grid point; the others have gaps (no trades):
\* "edges": the first two and the last grid point of every 300; "gappy": the first
\* and the middle one of every 300; "holed": as "edges" with the second 300 empty.
HasCandle(t) ==
    LET idx == t \div granularity
        pos == idx % MaxPerRequest
    IN  /\ t % granularity = 0
        /\ CASE market = "complete" -> TRUE
             [] market = "edges"    -> pos \in {0, 1, MaxPerRequest - 1}
             [] market = "gappy"    -> pos \in {0, MaxPerRequest \div 2}
             [] market = "holed"    -> /\ pos \in {0, 1, MaxPerRequest - 1}
                                       /\ idx \div MaxPerRequest # 1

\* The candle times the source returns for ?start=..&end=.., newest first.
\* mode "exact": the candles of [start, end); mode "closed": those of [start, end]
\* (the last one is also the first of the following window).
SourceCandles(start, end) ==
    LET lo == CeilDiv(start, granularity)
        hi == IF mode = "closed" THEN end \div granularity
                                 ELSE CeilDiv(end, granularity) - 1
        n  == hi - lo + 1
    IN  IF n <= 0 THEN <<>>
        ELSE SelectSeq([j \in 1..n |-> (hi - j + 1) * granularity],
                       LAMBDA t : HasCandle(t))

\* the answer to the request for the window numbered n: the next scripted fault,
\* or a candle list
Outcome(n) ==
    IF n \in DOMAIN script /\ script[n] # <<>> THEN Head(script[n]) ELSE "ok"

Consume(n) ==
    IF n \in DOMAIN script /\ script[n] # <<>>
    THEN [script EXCEPT ![n] = Tail(@)]
    ELSE script

-----------------------------------------------------------------------------
(* Data frames *)

\* df.sort_values('timestamp')
SortValues(rows) == SortSeq(rows, LAMBDA a, b : a.timestamp < b.timestamp)

\* df.drop_duplicates(subset=['timestamp']): the first row of each timestamp stays
\* (computed by halves: the rows kept of the first half, then the rows kept of the
\* second half whose timestamp the first half does not hold)
Timestamps(rows) == {rows[i].timestamp : i \in 1..Len(rows)}

RECURSIVE DropDuplicates(_)
DropDuplicates(rows) ==
    IF Len(rows) <= 1 THEN rows
    ELSE LET h == Len(rows) \div 2
             a == DropDuplicates(SubSeq(rows, 1, h))
             b == DropDuplicates(SubSeq(rows, h + 1, Len(rows)))
             seen == Timestamps(a)
         IN  a \o SelectSeq(b, LAMBDA r : r.timestamp \notin seen)

\* pd.concat(all_data, ignore_index=True)
RECURSIVE Concat(_)
Concat(frames) ==
    IF frames = <<>> THEN <<>>
    ELSE IF Len(frames) = 1 THEN frames[1]
    ELSE LET h == Len(frames) \div 2
         IN  Concat(SubSeq(frames, 1, h)) \o Concat(SubSeq(frames, h + 1, Len(frames)))

\* (a variant of Combine that leaves drop_duplicates out)
CombineKeepingDuplicates(frames) == SortValues(Concat(frames))

\* concat, drop_duplicates, sort_values, reset_index
Combine(frames) == SortValues(DropDuplicates(Concat(frames)))

\* The checkpoint file.  to_csv writes the timestamp as date and time of day and
\* the value columns; read_csv with pd.to_datetime reads them back.
FormatTimestamp(t) == <<t \div 86400, t % 86400>>
ParseTimestamp(txt) == txt[1] * 86400 + txt[2]

NoFile == [exists |-> FALSE, parseable |-> FALSE, lines |-> <<>>]

ToCsv(rows) ==
    [exists |-> TRUE, parseable |-> TRUE,
     lines |-> [i \in 1..Len(rows) |->
                  [timestamp |-> FormatTimestamp(rows[i].timestamp),
                   close |-> rows[i].close]]]

ReadCsv(file) ==
    [i \in 1..Len(file.lines) |->
       [timestamp |-> ParseTimestamp(file.lines[i].timestamp),
        close |-> file.lines[i].close,
        src |-> <<>>]]

\* existing_df['timestamp'].max()
MaxTimestamp(rows) ==
    IF rows = <<>> THEN NaT
    ELSE LET ts == Timestamps(rows)
         IN  CHOOSE m \in ts : \A t \in ts : t <= m

-----------------------------------------------------------------------------
(* fetch_candles *)

\* params["start"], params["end"]: a range of more than 300 candles is cut to 300
SentWindow(start, end) ==
    IF end - start > 300 * granularity
    THEN <<start, start + 300 * granularity>>
    ELSE <<start, end>>

\* The data frame fetch_candles returns for the answer `kind`, or None.  An error
\* status (raise_for_status), a transport error, a body that is not JSON and an
\* empty candle list all give None.
FetchCandles(start, end, kind) ==
    IF granularity \notin GranularityMap THEN None
    ELSE LET w == SentWindow(start, end)
             times == SourceCandles(w[1], w[2])
         IN  IF kind # "ok" THEN None
             ELSE IF times = <<>> THEN None
             ELSE Frame(SortValues([i \in 1..Len(times) |-> Candle(times[i], <<start>>)]))

-----------------------------------------------------------------------------
(* The fetch loop *)

\* (a variant of BatchSeconds sized by the API's maximum of 350 candles)
BatchSecondsApiMax ==
    IF prog = "btc" THEN 350 * granularity ELSE 350 * OneDay

\* batch_timedelta = timedelta(seconds=300 * granularity); timedelta(days=300)
BatchSeconds ==
    IF prog = "btc" THEN MaxPerRequest * granularity ELSE MaxPerRequest * OneDay

\* (a variant of CurrentEnd without the min)
CurrentEndUnclamped(cs) == cs + BatchSeconds

\* current_end = min(current_start + batch_timedelta, end_date)
CurrentEnd(cs) == Min(cs + BatchSeconds, end_date)

\* a printed line: "Failed after 3 attempts" under the "Fetching: .. to .." line of
\* the window (daily fetch), "Warning: N requests failed", "No data was fetched"
Line(msg, window, count) == [msg |-> msg, window |-> window, count |-> count]

\* (a variant of Cleanup that leaves the checkpoint file in place)
CleanupSkipped(cp) == cp

\* (a variant of NextStart that steps back one candle from the end of the window)
NextStartOverlapping(cs) == CurrentEnd(cs) - granularity

\* "Move to next batch": current_start = current_end
NextStart(cs) == CurrentEnd(cs)

\* "Clean up checkpoint": os.remove(main_checkpoint); the daily fetch has none
Cleanup(cp) == IF prog = "btc" THEN NoFile ELSE cp

\* "Combine all data" to the return: the result, the failed-requests file, the
\* report and the removal of the checkpoint.  cp is the checkpoint file and out
\* the output as the loop left them.
Finish(ad, fr, cp, out) ==
    /\ pc' = "done"
    /\ IF ad # <<>>
       THEN /\ result' = Frame(Combine(ad))
            /\ printed' = IF fr # <<>>
                          THEN Append(out, Line("warning", <<>>, Len(fr)))
                          ELSE out
            /\ failFile' = IF prog = "btc" /\ fr # <<>>
                           THEN [exists |-> TRUE, lines |-> fr]
                           ELSE failFile
            /\ cpFile' = Cleanup(cp)
       ELSE /\ result' = None
            /\ printed' = Append(out, Line("no_data", <<>>, 0))
            /\ failFile' = failFile
            /\ cpFile' = cp

\* The loop test `while current_start < end_date` with the head of the next
\* iteration (request_count += 1, retry_count = 0, df = None), or the way out.
LoopTest(cs, ad, fr, cp, out) ==
    /\ current_start' = cs
    /\ all_data' = ad
    /\ failed_requests' = fr
    /\ IF Before(cs, end_date)
       THEN /\ pc' = "fetching"
            /\ request_count' = request_count + 1
            /\ retry_count' = 0
            /\ cpFile' = cp
            /\ printed' = out
            /\ UNCHANGED <<result, failFile>>
       ELSE /\ Finish(ad, fr, cp, out)
            /\ UNCHANGED <<request_count, retry_count>>

\* (a variant of ResumeStart that resumes at the last timestamp itself)
ResumeStartAtLast(existing_df) == MaxTimestamp(existing_df)

\* (a variant of ResumeStart that steps two candles past the last timestamp)
ResumeStartSkipping(existing_df) ==
    AddSeconds(MaxTimestamp(existing_df), 2 * granularity)

\* last_timestamp = existing_df['timestamp'].max()
\* current_start = last_timestamp + timedelta(seconds=granularity)
ResumeStart(existing_df) == AddSeconds(MaxTimestamp(existing_df), granularity)

\* The start of the run up to the first request: the checkpoint is loaded when the
\* file exists (read_csv raises on a file it cannot parse; nothing catches it).
Start ==
    /\ pc = "init"
    /\ cpAtStart' = cpFile
    /\ log' = <<>>
    /\ events' = <<>>
    /\ UNCHANGED <<args, leverage, minting, hist, paging, script, run>>
    /\ IF prog = "btc" /\ cpFile.exists
       THEN IF ~cpFile.parseable
            THEN /\ pc' = "crashed"
                 /\ printed' = <<>>
                 /\ UNCHANGED <<cpFile, failFile, all_data, current_start,
                                request_count, retry_count, failed_requests, result>>
            ELSE LET existing_df == ReadCsv(cpFile)
                 IN  LoopTest(ResumeStart(existing_df), <<existing_df>>, <<>>, cpFile,
                              <<>>)
       ELSE LoopTest(start_date, <<>>, <<>>, cpFile, <<>>)

\* (a variant of RetryLeft that allows one attempt fewer)
RetryLeftOneFewer(count) == count < MaxRetries - 1

\* `if retry_count < max_retries`, evaluated after `retry_count += 1`
RetryLeft(count) == count < MaxRetries

\* The request being sent now, as the history records it: the window's number,
\* the range asked for and the answer ("ok": candles, "empty": an empty candle
\* list, or the fault).
Sent(kind, df) ==
    LET w == SentWindow(current_start, CurrentEnd(current_start))
    IN  [n |-> request_count, start |-> w[1], end |-> w[2],
         kind |-> IF kind = "ok" /\ df.none THEN "empty" ELSE kind]

\* the checkpoint file after the window numbered n has added its frame
Checkpointed(n, ad) ==
    IF prog = "btc" /\ n % CheckpointInterval = 0
    THEN ToCsv(Combine(ad))
    ELSE cpFile

\* One pass of the retry loop in which fetch_candles returns a data frame: the
\* frame is appended, the checkpoint is saved every 100 requests, and the loop
\* moves to the next window.
RequestOk ==
    /\ pc = "fetching"
    /\ LET kind == Outcome(request_count)
           df == FetchCandles(current_start, CurrentEnd(current_start), kind)
           ad == Append(all_data, df.rows)
       IN  /\ ~df.none
           /\ log' = Append(log, Sent(kind, df))
           /\ events' = events \o <<"request", "sleep">>
           /\ script' = Consume(request_count)
           /\ LoopTest(NextStart(current_start), ad, failed_requests,
                       Checkpointed(request_count, ad), printed)
    /\ UNCHANGED <<args, leverage, minting, hist, paging, run, cpAtStart>>

\* One pass in which fetch_candles returns None and a retry is left.
RequestRetry ==
    /\ pc = "fetching"
    /\ LET kind == Outcome(request_count)
           df == FetchCandles(current_start, CurrentEnd(current_start), kind)
       IN  /\ df.none
           /\ RetryLeft(retry_count + 1)
           /\ log' = Append(log, Sent(kind, df))
           /\ events' = events \o <<"request", "sleep">>
           /\ script' = Consume(request_count)
    /\ retry_count' = retry_count + 1
    /\ UNCHANGED <<args, leverage, minting, hist, paging, run, cpAtStart, cpFile, failFile, pc, all_data,
                   current_start, request_count, failed_requests, result, printed>>

\* The output after the window has failed: the daily fetch prints
\* "Failed after 3 attempts" for the window it named in "Fetching: .. to ..".
GaveUp ==
    IF prog = "eth"
    THEN Append(printed, Line("failed", <<current_start, CurrentEnd(current_start)>>, 0))
    ELSE printed

\* (a variant of RequestGiveUp that ends the fetch at the failed window)
RequestGiveUpAndStop ==
    /\ pc = "fetching"
    /\ LET kind == Outcome(request_count)
           df == FetchCandles(current_start, CurrentEnd(current_start), kind)
           fr == Append(failed_requests, <<current_start, CurrentEnd(current_start)>>)
       IN  /\ df.none
           /\ ~RetryLeft(retry_count + 1)
           /\ log' = Append(log, Sent(kind, df))
           /\ events' = events \o <<"request", "sleep">>
           /\ script' = Consume(request_count)
           /\ failed_requests' = fr
           /\ Finish(all_data, fr, cpFile, GaveUp)
    /\ UNCHANGED <<args, leverage, minting, hist, paging, run, cpAtStart, all_data, current_start, request_count,
                   retry_count>>

\* One pass in which fetch_candles returns None and no retry is left: the window
\* goes to failed_requests and the loop moves to the next window.
RequestGiveUp ==
    /\ pc = "fetching"
    /\ LET kind == Outcome(request_count)
           df == FetchCandles(current_start, CurrentEnd(current_start), kind)
       IN  /\ df.none
           /\ ~RetryLeft(retry_count + 1)
           /\ log' = Append(log, Sent(kind, df))
           /\ events' = events \o <<"request", "sleep">>
           /\ script' = Consume(request_count)
           /\ LoopTest(NextStart(current_start), all_data,
                       Append(failed_requests,
                              <<current_start, CurrentEnd(current_start)>>),
                       cpFile, GaveUp)
    /\ UNCHANGED <<args, leverage, minting, hist, paging, run, cpAtStart>>

\* The process is terminated between two requests (Ctrl+C); its memory is gone,
\* the files stay.
Kill ==
    /\ pc = "fetching"
    /\ pc' = "killed"
    /\ all_data' = <<>>
    /\ failed_requests' = <<>>
    /\ current_start' = start_date
    /\ request_count' = 0
    /\ retry_count' = 0
    /\ UNCHANGED <<args, leverage, minting, hist, paging, script, run, cpAtStart, cpFile, failFile,
                   result, log, printed, events>>

\* What a kill can leave of a file that to_csv(path) was writing in place: the
\* path is opened for writing, which empties it, and the header and the rows
\* follow.  An empty file (read_csv cannot parse it), the header, the header and
\* some of the rows, or all of it.
Interrupted(rows) ==
    {[exists |-> TRUE, parseable |-> FALSE, lines |-> <<>>]}
        \cup {ToCsv(SubSeq(rows, 1, k)) : k \in {0, Len(rows) \div 2, Len(rows)}}

\* The process is terminated while the checkpoint of request 100, 200, ... is
\* being written (temp_df.to_csv(main_checkpoint)).
KillDuringSave ==
    /\ pc = "fetching"
    /\ prog = "btc"
    /\ request_count % CheckpointInterval = 0
    /\ LET kind == Outcome(request_count)
           df == FetchCandles(current_start, CurrentEnd(current_start), kind)
           temp_df == Combine(Append(all_data, df.rows))
       IN  /\ ~df.none
           /\ log' = Append(log, Sent(kind, df))
           /\ events' = Append(events, "request")
           /\ script' = Consume(request_count)
           /\ cpFile' \in Interrupted(temp_df)
           /\ saving' = [run |-> run, old |-> cpFile, new |-> ToCsv(temp_df)]
    /\ pc' = "killed"
    /\ all_data' = <<>>
    /\ failed_requests' = <<>>
    /\ current_start' = start_date
    /\ request_count' = 0
    /\ retry_count' = 0
    /\ UNCHANGED <<args, leverage, minting, paging, prevLog, run, cpAtStart, failFile, result, printed>>

\* The script is started again with the same arguments.
Restart ==
    /\ pc = "killed"
    /\ run < MaxRuns
    /\ pc' = "init"
    /\ run' = run + 1
    /\ log' = <<>>
    /\ events' = <<>>
    /\ UNCHANGED <<args, leverage, minting, hist, paging, script, cpAtStart, cpFile, failFile, all_data,
                   current_start, request_count, retry_count, failed_requests, result,
                   printed>>

\* The script is started again with the same arguments; the terminated run's
\* requests are remembered.
RestartKeepingLog ==
    /\ pc = "killed"
    /\ run < MaxRuns
    /\ pc' = "init"
    /\ run' = run + 1
    /\ log' = <<>>
    /\ events' = <<>>
    /\ prevLog' = log
    /\ UNCHANGED <<args, leverage, minting, paging, saving, script, cpAtStart, cpFile, failFile, all_data,
                   current_start, request_count, retry_count, failed_requests, result,
                   printed>>

Next ==
    \/ Start
    \/ RequestOk
    \/ RequestRetry
    \/ RequestGiveUp
    \/ Kill
    \/ Restart

-----------------------------------------------------------------------------
(* Initial states: the arguments, the source and the files a run starts with *)

Setup(p, e, g, m, md) ==
    [prog |-> p, start_date |-> 0, end_date |-> e, granularity |-> g,
     market |-> m, mode |-> md]

\* Daily ranges from 2020-01-01: to 2020-02-01 (31 days), to 2021-01-01 (366 days),
\* and to 23:59:59 of the third day (an end that is not on the grid, as in __main__).
EthSetups ==
    {Setup("eth", 31 * OneDay, OneDay, "complete", md) : md \in {"exact", "closed"}}
    \cup {Setup("eth", 366 * OneDay, OneDay, "complete", md) : md \in {"exact", "closed"}}
    \cup {Setup("eth", 3 * OneDay - 1, OneDay, m, md) :
             m \in {"complete", "gappy"}, md \in {"exact", "closed"}}

\* Five-minute ranges of two full windows and eleven more candles, the end not on
\* the grid; and one of eleven candles (a single window).
BtcSetups ==
    {Setup("btc", (2 * MaxPerRequest + 11) * FiveMinutes - 1, FiveMinutes, m, md) :
        m \in {"edges", "gappy", "holed"}, md \in {"exact", "closed"}}
    \cup {Setup("btc", 11 * FiveMinutes - 1, FiveMinutes, "edges", "exact")}

\* Ranges that are empty or reversed: the end at the start, and a day before it.
InvalidSetups ==
    {Setup("btc", e, FiveMinutes, "edges", "exact") : e \in {0, 0 - OneDay}}

\* a checkpoint file left by an earlier fetch: two candles
OldCheckpoint == ToCsv(<<Candle(0, <<>>), Candle(FiveMinutes, <<>>)>>)

\* Five-minute ranges long enough for the checkpoint to be saved.
LongSetups ==
    {Setup("btc", (CheckpointInterval + ExtraWindows) * MaxPerRequest * FiveMinutes - 1,
           FiveMinutes, m, md) :
        m \in {"edges", "gappy"}, md \in {"exact", "closed"}}

\* the runs of faults one window is answered with
FaultRuns ==
    {[i \in 1..k |-> f] : f \in FaultKinds, k \in 1..MaxFaults}
    \cup UNION {[1..k -> {"e429", "e500"}] : k \in 1..MaxRetries}

NoFaults(ords) == [n \in ords |-> <<>>]

Scripts(ords) ==
    {NoFaults(ords)}
    \cup {[n \in ords |-> IF n = o THEN fr ELSE <<>>] : o \in ords, fr \in FaultRuns}

ShortOrdinals == 1..MaxFaultyOrdinal
LongOrdinals == {1, CheckpointInterval}

Unparseable == [exists |-> TRUE, parseable |-> FALSE, lines |-> <<>>]

Reverse(s) == [i \in 1..Len(s) |-> s[Len(s) + 1 - i]]

\* What may lie at the checkpoint path when a short run starts: nothing; a file
\* that cannot be parsed; a header without rows; the rows of the first window (as
\* a checkpoint taken after it would hold them); the same rows out of order; the
\* same rows twice.
PlantedFiles ==
    LET first == FetchCandles(start_date, CurrentEnd(start_date), "ok").rows
    IN  {NoFile, Unparseable, ToCsv(<<>>), ToCsv(first), ToCsv(Reverse(first)),
         ToCsv(first \o first)}

\* the fetches of leverage-data.py and mint.py are not running
Idle ==
    /\ utc_offset = 0
    /\ all_klines = <<>>
    /\ current_date = 0
    /\ all_oi_data = <<>>
    /\ end_time = 0
    /\ all_funding = <<>>
    /\ start_block = 0
    /\ end_block = 0
    /\ max_events = 0
    /\ token_events = <<>>

InitWith(setups) ==
    /\ \E su \in setups :
          /\ prog = su.prog
          /\ start_date = su.start_date
          /\ end_date = su.end_date
          /\ granularity = su.granularity
          /\ market = su.market
          /\ mode = su.mode
    /\ failFile = [exists |-> FALSE, lines |-> <<>>]
    /\ pc = "init"
    /\ all_data = <<>>
    /\ current_start = start_date
    /\ request_count = 0
    /\ retry_count = 0
    /\ failed_requests = <<>>
    /\ result = None
    /\ run = 1
    /\ log = <<>>
    /\ cpAtStart = NoFile
    /\ printed = <<>>
    /\ prevLog = <<>>
    /\ saving = [run |-> 0, old |-> NoFile, new |-> NoFile]
    /\ events = <<>>
    /\ page = 1
    /\ has_more = TRUE
    /\ all_incidents = <<>>
    /\ pages_log = <<>>
    /\ Idle

Init ==
    \/ /\ InitWith(EthSetups \cup BtcSetups)
       /\ \/ /\ cpFile = NoFile
             /\ script \in Scripts(ShortOrdinals)
          \/ /\ prog = "btc"
             /\ cpFile \in PlantedFiles
             /\ script \in {sc \in Scripts(ShortOrdinals) :
                               \A n \in ShortOrdinals : Len(sc[n]) \in {0, MaxRetries}}
    \/ /\ InitWith(InvalidSetups)
       /\ cpFile \in {NoFile, OldCheckpoint}
       /\ script = NoFaults(ShortOrdinals)

Spec == Init /\ [][Next]_vars

\* A step of the running fetch, told by the program counter and the two
\* counters: Start leaves "init"; RequestOk and RequestGiveUp step request_count
\* or reach "done"; RequestRetry steps retry_count.  Kill and Restart are not
\* such steps.
RunStep ==
    /\ pc \in {"init", "fetching"}
    /\ pc' \in {"fetching", "done", "crashed"}
    /\ request_count' \in {request_count, request_count + 1}
    /\ retry_count' \in 0..MaxRetries

\* The fetch is one sequential control flow: a process that is not terminated
\* takes its next step (every request returns with an answer).
SpecLive ==
    Init /\ [][Next]_vars /\ WF_<<pc, request_count, retry_count>>(RunStep)

InitLong ==
    /\ InitWith(LongSetups)
    /\ cpFile \in {NoFile, Unparseable}
    /\ script \in {sc \in Scripts(LongOrdinals) :
                      \A n \in LongOrdinals :
                         \A i \in 1..Len(sc[n]) : sc[n][i] = "e500"}

\* the long run can also be terminated while it saves the checkpoint
NextLong ==
    \/ Start
    \/ RequestOk
    \/ RequestRetry
    \/ RequestGiveUp
    \/ Kill
    \/ KillDuringSave
    \/ Restart

SpecLong == InitLong /\ [][NextLong]_vars

\* A long run over a source with gaps, terminated at any request and restarted,
\* the requests of the terminated run remembered; window 100 may fail.
NextResume ==
    \/ Start
    \/ RequestOk
    \/ RequestRetry
    \/ RequestGiveUp
    \/ Kill
    \/ RestartKeepingLog

InitResume ==
    /\ InitWith({su \in LongSetups : su.market = "gappy" /\ su.mode = "exact"})
    /\ cpFile = NoFile
    /\ script \in {sc \in Scripts({CheckpointInterval}) :
                      /\ Len(sc[CheckpointInterval]) \in {0, MaxRetries}
                      /\ \A i \in 1..Len(sc[CheckpointInterval]) :
                            sc[CheckpointInterval][i] = "e500"}

SpecResume == InitResume /\ [][NextResume]_vars

\* the checkpoint a fetch that started at `from` (on the grid) writes at request
\* 100: the source's candles of its first 100 windows, in ascending order, as
\* to_csv writes them
CheckpointOfRunFrom(from) ==
    [exists |-> TRUE, parseable |-> TRUE,
     lines |-> SelectSeq([j \in 1..(CheckpointInterval * MaxPerRequest) |->
                            [timestamp |-> FormatTimestamp(from + (j - 1) * granularity),
                             close |-> Price(from + (j - 1) * granularity)]],
                         LAMBDA l : HasCandle(ParseTimestamp(l.timestamp)))]

\* Checkpoint files left at the fixed path btc_usd_checkpoint_complete.csv by a
\* fetch over another range that was terminated after request 100: a range from
\* this start_date to a later end, and a range that started 100 windows earlier.
StaleCheckpoints ==
    {CheckpointOfRunFrom(start_date),
     CheckpointOfRunFrom(start_date - CheckpointInterval * BatchSeconds)}

\* A short five-minute fetch over a source that answers a request with the
\* candles of [start, end), started where a checkpoint file may lie that the fetch
\* of another range left.
InitStale ==
    /\ InitWith({su \in BtcSetups : su.mode = "exact"})
    /\ cpFile \in {NoFile} \cup StaleCheckpoints
    /\ script \in Scripts(ShortOrdinals)

SpecStale == InitStale /\ [][Next]_vars

-----------------------------------------------------------------------------
(* fetch_all_incidents (arbitrum-bridge-congestion.py): the page-based fetch *)

\* per_page = 100, and the test len(incidents) < 100
PerPage == 100
\* max_pages = 50
MaxPages == 50
\* if page > 3: has_more = False
FailurePageLimit == 3
\* (bound) how many incidents a page that is not full holds
ShortPage == 2

\* What the source can answer a page request with: a full page, a page that is
\* not full, an empty incident list, a body that is not JSON, or a failure
\* (a timeout, an error status).  response.json() reports a body that is not
\* JSON with an exception whose class depends on the installation: a
\* json.JSONDecodeError ("badjson"), or, where requests decodes with simplejson,
\* simplejson's error, which is not a json.JSONDecodeError ("badjson_simplejson").
PageAnswers == {"full", "short", "none", "badjson", "badjson_simplejson",
                "timeout", "e500", "e404", "e429"}

\* the incidents of page p
Incidents(p, n) == [i \in 1..n |-> <<p, i>>]

\* fetch_incidents_page(page): the incidents of the data it returns, or its
\* exception.  A timeout and an error status (raise_for_status) are raised again;
\* a body that is not JSON gives {'incidents': []} when the decoder's exception is
\* a json.JSONDecodeError, and is raised by the function otherwise.
FetchIncidentsPage(p, kind) ==
    CASE kind = "full"    -> [raised |-> FALSE, incidents |-> Incidents(p, PerPage)]
      [] kind = "short"   -> [raised |-> FALSE, incidents |-> Incidents(p, ShortPage)]
      [] kind = "none"    -> [raised |-> FALSE, incidents |-> <<>>]
      [] kind = "badjson" -> [raised |-> FALSE, incidents |-> <<>>]
      [] OTHER            -> [raised |-> TRUE, incidents |-> <<>>]

\* (a variant of MorePages that lets the page number pass max_pages by one)
MorePagesOneOver(hm, p) == hm /\ p <= MaxPages + 1

\* while has_more and page <= max_pages
MorePages(hm, p) == hm /\ p <= MaxPages

\* the end of a pass of the loop: the loop test, and the return after the loop
PageLoopTest(hm, p) ==
    /\ has_more' = hm
    /\ page' = p
    /\ pc' = IF MorePages(hm, p) THEN "paging" ELSE "returned"

\* A pass in which the page holds incidents: they are added; a full page is
\* followed by the next page, after a sleep; a page that is not full ends the loop.
PageOk ==
    /\ pc = "paging"
    /\ \E kind \in PageAnswers :
          LET data == FetchIncidentsPage(page, kind)
              full == Len(data.incidents) >= PerPage
          IN  /\ ~data.raised
              /\ data.incidents # <<>>
              /\ pages_log' = Append(pages_log, [page |-> page, kind |-> kind])
              /\ all_incidents' = all_incidents \o data.incidents
              /\ events' = IF full THEN events \o <<"request", "sleep">>
                                   ELSE Append(events, "request")
              /\ PageLoopTest(full, IF full THEN page + 1 ELSE page)
    /\ UNCHANGED <<args, leverage, minting, hist, script, cpFile, failFile, all_data, current_start,
                   request_count, retry_count, failed_requests, result, run, log,
                   cpAtStart, printed>>

\* A pass in which the page holds no incident: "No more incidents", the loop ends.
PageEmpty ==
    /\ pc = "paging"
    /\ \E kind \in PageAnswers :
          LET data == FetchIncidentsPage(page, kind)
          IN  /\ ~data.raised
              /\ data.incidents = <<>>
              /\ pages_log' = Append(pages_log, [page |-> page, kind |-> kind])
              /\ events' = Append(events, "request")
              /\ PageLoopTest(FALSE, page)
    /\ UNCHANGED <<args, leverage, minting, hist, script, cpFile, failFile, all_data, current_start,
                   request_count, retry_count, failed_requests, result, run, log,
                   cpAtStart, printed, all_incidents>>

\* A pass in which fetch_incidents_page raises: the page number is stepped, and
\* past page 3 the loop ends.
PageFailed ==
    /\ pc = "paging"
    /\ \E kind \in PageAnswers :
          LET data == FetchIncidentsPage(page, kind)
          IN  /\ data.raised
              /\ pages_log' = Append(pages_log, [page |-> page, kind |-> kind])
              /\ events' = Append(events, "request")
              /\ PageLoopTest(has_more /\ ~(page + 1 > FailurePageLimit), page + 1)
    /\ UNCHANGED <<args, leverage, minting, hist, script, cpFile, failFile, all_data, current_start,
                   request_count, retry_count, failed_requests, result, run, log,
                   cpAtStart, printed, all_incidents>>

NextPages ==
    \/ PageOk
    \/ PageEmpty
    \/ PageFailed

\* fetch_all_incidents is called: all_incidents = [], page = 1, has_more = True
InitPages ==
    /\ prog = "incidents"
    /\ start_date = 0
    /\ end_date = 0
    /\ granularity = OneDay
    /\ market = "complete"
    /\ mode = "exact"
    /\ script = <<>>
    /\ cpFile = NoFile
    /\ failFile = [exists |-> FALSE, lines |-> <<>>]
    /\ pc = "paging"
    /\ all_data = <<>>
    /\ current_start = 0
    /\ request_count = 0
    /\ retry_count = 0
    /\ failed_requests = <<>>
    /\ result = None
    /\ run = 1
    /\ log = <<>>
    /\ cpAtStart = NoFile
    /\ printed = <<>>
    /\ prevLog = <<>>
    /\ saving = [run |-> 0, old |-> NoFile, new |-> NoFile]
    /\ events = <<>>
    /\ page = 1
    /\ has_more = TRUE
    /\ all_incidents = <<>>
    /\ pages_log = <<>>
    /\ Idle

\* a pass of the loop, told by the program counter, page and has_more: every
\* pass steps the page number or clears has_more
PageStep ==
    /\ pc = "paging"
    /\ pc' \in {"paging", "returned"}
    /\ page' \in {page, page + 1}
    /\ has_more' \in BOOLEAN

\* the loop is one sequential control flow: a pass that can be taken is taken
SpecPages == InitPages /\ [][NextPages]_vars /\ WF_<<pc, page, has_more>>(PageStep)

-----------------------------------------------------------------------------
(* get_hourly_klines and get_hourly_open_interest (leverage-data.py).  Times  *)
(* in this section are whole hours counted from 2020-01-01T00:00 UTC: candle  *)
(* and open-interest times are on the hour, and a startTime or endTime in     *)
(* milliseconds is kept as the hour it names.                                 *)

\* 'limit': 1000 of the klines request
KlinesLimit == 1000
\* timedelta(hours=1)
OneHour == 1
\* timedelta(days=20), in hours
ChunkHours == 480
\* 'limit': 500 of the openInterestHist request
OiLimit == 500
\* (bound) how many 429 responses the source gives in one fetch
MaxRateLimited == 3
\* (bound) how many responses of a single candle the source gives in one fetch
MaxSingles == 2
\* (bound) in a response with a gap: the hours between startTime and the first
\* candle, and between the first candle and the second
LateBy == 3
GapHours == 700

\* datetime.timestamp() of a naive datetime reads it as local time
DatetimeTimestamp(t) == t - utc_offset
\* pd.Timestamp.timestamp() of a naive Timestamp reads it as UTC, and
\* pd.to_datetime(ms, unit='ms') gives the UTC time
PandasTimestamp(t) == t

\* start_ms = int(current_start.timestamp() * 1000): current_start is the datetime
\* start_date until candles have come, and last_time + timedelta(hours=1), a
\* pandas Timestamp, from then on
StartMs(cs, klines) ==
    IF klines = <<>> THEN DatetimeTimestamp(cs) ELSE PandasTimestamp(cs)

\* What the source can answer a klines or openInterestHist request with: status
\* 200 with the records of the first two hours and of the last hour the request
\* can reach, the source having none between ("edges"), with two candles, the
\* first late and a gap between them ("gap"), with one candle ("single"), with an
\* empty list ("none"); status 429; another error status; or the request raises.
KlineAnswers == {"edges", "gap", "single", "none", "e429", "e500", "exception"}
OiAnswers == {"edges", "none", "e429", "e500", "exception"}

\* response.status_code (0: requests.get raised, there is no response)
StatusCode(kind) ==
    CASE kind \in {"edges", "gap", "single", "none"} -> 200
      [] kind = "e429" -> 429
      [] kind = "e500" -> 500
      [] OTHER -> 0

\* the open times of the klines in the body of a 200 response to startTime = st:
\* ascending, none before st, at most `limit` of them
KlineTimes(st, kind) ==
    CASE kind = "edges"  -> <<st, st + OneHour, st + (KlinesLimit - 1) * OneHour>>
      [] kind = "gap"    -> <<st + LateBy, st + LateBy + GapHours>>
      [] kind = "single" -> <<st>>
      [] OTHER           -> <<>>

\* the times of the open-interest points in the body of a 200 response to
\* startTime = st, endTime = en
OiTimes(st, en, kind) ==
    IF kind = "edges"
    THEN <<st, st + OneHour, Min(en, st + (OiLimit - 1) * OneHour)>>
    ELSE <<>>

\* how many of the requests sent were answered with `kind`
Answers(kind) == Len(SelectSeq(log, LAMBDA e : e.kind = kind))

\* the source gives the answer `kind` now (the bounds on its 429s and singles)
Gives(kind) ==
    /\ kind = "e429" => Answers("e429") < MaxRateLimited
    /\ kind = "single" => Answers("single") < MaxSingles

\* the request sent now, as the history records it: the times asked for, the
\* answer, and how many records the accumulator held when it was sent
Request(window, kind, acc) == [window |-> window, kind |-> kind, held |-> Len(acc)]

\* df.drop_duplicates(subset=['timestamp']).sort_values('timestamp'), or None
Returned(records) ==
    IF records # <<>> THEN Frame(SortValues(DropDuplicates(records))) ELSE None

\* (a variant of NextKlineStart that asks again from the last candle returned)
NextKlineStartAtLast(data) == data[Len(data)]

\* last_time = pd.to_datetime(data[-1][0], unit='ms')
\* current_start = last_time + timedelta(hours=1)
NextKlineStart(data) == data[Len(data)] + OneHour

\* the way out of get_hourly_klines' loop (a break, or the loop test failing)
KlinesReturn(ak) ==
    /\ pc' = "returned"
    /\ result' = Returned(ak)

\* `while current_start < end_date`, after a pass that was not left by a break
KlinesLoopTest(cs, ak) ==
    IF cs < end_date
    THEN pc' = "klines" /\ result' = result
    ELSE KlinesReturn(ak)

\* A pass in which the response is 200 with klines: they are appended, and the
\* next start is one hour after the last of them.
KlinesOk ==
    /\ pc = "klines"
    /\ \E kind \in KlineAnswers :
          LET st == StartMs(current_start, all_klines)
              data == KlineTimes(st, kind)
              ak == all_klines \o [i \in 1..Len(data) |-> Candle(data[i], <<st>>)]
          IN  /\ Gives(kind)
              /\ StatusCode(kind) = 200
              /\ data # <<>>
              /\ log' = Append(log, Request(<<st>>, kind, all_klines))
              /\ events' = events \o <<"request", "sleep">>
              /\ all_klines' = ak
              /\ current_start' = NextKlineStart(data)
              /\ KlinesLoopTest(NextKlineStart(data), ak)
    /\ request_count' = request_count + 1
    /\ UNCHANGED <<args, hist, paging, minting, script, cpFile, failFile, all_data,
                   retry_count, failed_requests, run, cpAtStart, printed,
                   utc_offset, current_date, all_oi_data, end_time, all_funding>>

\* A pass that ends in a break: the response is 200 with an empty list, or an
\* error status other than 429 ("Error: .."), or the request raised.
KlinesBreak ==
    /\ pc = "klines"
    /\ \E kind \in KlineAnswers :
          LET st == StartMs(current_start, all_klines)
          IN  /\ Gives(kind)
              /\ StatusCode(kind) # 429
              /\ KlineTimes(st, kind) = <<>>
              /\ log' = Append(log, Request(<<st>>, kind, all_klines))
              /\ events' = Append(events, "request")
              /\ KlinesReturn(all_klines)
    /\ request_count' = request_count + 1
    /\ UNCHANGED <<args, hist, paging, minting, leverage, script, cpFile, failFile,
                   all_data, current_start, retry_count, failed_requests, run,
                   cpAtStart, printed>>

\* (a variant of KlinesRateLimited in which a 429 is taken as the other error
\* statuses are: the loop is left)
KlinesRateLimitedBreak ==
    /\ pc = "klines"
    /\ \E kind \in KlineAnswers :
          /\ Gives(kind)
          /\ StatusCode(kind) = 429
          /\ log' = Append(log, Request(<<StartMs(current_start, all_klines)>>, kind, all_klines))
          /\ events' = Append(events, "request")
          /\ KlinesReturn(all_klines)
    /\ request_count' = request_count + 1
    /\ UNCHANGED <<args, hist, paging, minting, leverage, script, cpFile, failFile,
                   all_data, current_start, retry_count, failed_requests, run,
                   cpAtStart, printed>>

\* A pass in which the response is 429: sleep(60) and `continue`.
KlinesRateLimited ==
    /\ pc = "klines"
    /\ \E kind \in KlineAnswers :
          /\ Gives(kind)
          /\ StatusCode(kind) = 429
          /\ log' = Append(log, Request(<<StartMs(current_start, all_klines)>>, kind, all_klines))
          /\ events' = events \o <<"request", "cooldown">>
    /\ request_count' = request_count + 1
    /\ UNCHANGED <<args, hist, paging, minting, leverage, script, cpFile, failFile,
                   pc, all_data, current_start, retry_count, failed_requests, result,
                   run, cpAtStart, printed>>

\* end_chunk = min(current_date + timedelta(days=20), self.end_date)
EndChunk(cd) == Min(cd + ChunkHours, end_date)

\* startTime and endTime of the open-interest request for the chunk at cd
OiWindow(cd) == <<DatetimeTimestamp(cd), DatetimeTimestamp(EndChunk(cd))>>

\* `current_date = end_chunk`, sleep(1), and the loop test
\* `while current_date < self.end_date` with the return after the loop
OiAdvance(acc) ==
    /\ current_date' = EndChunk(current_date)
    /\ all_oi_data' = acc
    /\ IF EndChunk(current_date) < end_date
       THEN pc' = "oi" /\ result' = result
       ELSE pc' = "returned" /\ result' = Returned(acc)

\* A pass of get_hourly_open_interest in which the response is 200: its points,
\* if any, are appended, and the fetch moves to the next chunk.
OiOk ==
    /\ pc = "oi"
    /\ \E kind \in OiAnswers :
          LET w == OiWindow(current_date)
              data == OiTimes(w[1], w[2], kind)
          IN  /\ Gives(kind)
              /\ StatusCode(kind) = 200
              /\ log' = Append(log, Request(w, kind, all_oi_data))
              /\ events' = events \o <<"request", "sleep">>
              /\ OiAdvance(all_oi_data \o [i \in 1..Len(data) |-> Candle(data[i], <<w[1]>>)])
    /\ request_count' = request_count + 1
    /\ UNCHANGED <<args, hist, paging, minting, script, cpFile, failFile, all_data,
                   current_start, retry_count, failed_requests, run, cpAtStart,
                   printed, utc_offset, all_klines, end_time, all_funding>>

\* A pass in which the response is an error status other than 429, or the request
\* raised: it is printed, and the fetch moves to the next chunk.
OiFailed ==
    /\ pc = "oi"
    /\ \E kind \in OiAnswers :
          /\ Gives(kind)
          /\ StatusCode(kind) \notin {200, 429}
          /\ log' = Append(log, Request(OiWindow(current_date), kind, all_oi_data))
          /\ events' = events \o <<"request", "sleep">>
          /\ OiAdvance(all_oi_data)
    /\ request_count' = request_count + 1
    /\ UNCHANGED <<args, hist, paging, minting, script, cpFile, failFile, all_data,
                   current_start, retry_count, failed_requests, run, cpAtStart,
                   printed, utc_offset, all_klines, end_time, all_funding>>

\* A pass in which the response is 429: sleep(60) and `continue`.
OiRateLimited ==
    /\ pc = "oi"
    /\ \E kind \in OiAnswers :
          /\ Gives(kind)
          /\ StatusCode(kind) = 429
          /\ log' = Append(log, Request(OiWindow(current_date), kind, all_oi_data))
          /\ events' = events \o <<"request", "cooldown">>
    /\ request_count' = request_count + 1
    /\ UNCHANGED <<args, hist, paging, minting, leverage, script, cpFile, failFile,
                   pc, all_data, current_start, retry_count, failed_requests, result,
                   run, cpAtStart, printed>>

NextLeverage ==
    \/ KlinesOk
    \/ KlinesBreak
    \/ KlinesRateLimited
    \/ OiOk
    \/ OiFailed
    \/ OiRateLimited

\* the variables of the candle fetch and of the page fetch, not in use
NotFetchingCandles ==
    /\ granularity = OneDay
    /\ market = "complete"
    /\ mode = "exact"
    /\ script = <<>>
    /\ cpFile = NoFile
    /\ failFile = [exists |-> FALSE, lines |-> <<>>]
    /\ all_data = <<>>
    /\ request_count = 0
    /\ retry_count = 0
    /\ failed_requests = <<>>
    /\ result = None
    /\ run = 1
    /\ log = <<>>
    /\ cpAtStart = NoFile
    /\ printed = <<>>
    /\ prevLog = <<>>
    /\ saving = [run |-> 0, old |-> NoFile, new |-> NoFile]
    /\ events = <<>>
    /\ page = 1
    /\ has_more = TRUE
    /\ all_incidents = <<>>
    /\ pages_log = <<>>

\* the local time zones the fetch is run in: New York (winter), UTC, Singapore
UtcOffsets == {0 - 5, 0, 8}

\* get_hourly_klines or get_hourly_open_interest is called, over a range of two
\* full requests and eleven hours more
InitLeverage ==
    /\ prog \in {"klines", "oi"}
    /\ pc = prog
    /\ start_date = 0
    /\ end_date = IF prog = "klines" THEN 2 * KlinesLimit + 11 ELSE 2 * ChunkHours + 11
    /\ current_start = start_date
    /\ current_date = start_date
    /\ utc_offset \in UtcOffsets
    /\ all_klines = <<>>
    /\ all_oi_data = <<>>
    /\ end_time = 0
    /\ all_funding = <<>>
    /\ start_block = 0
    /\ end_block = 0
    /\ max_events = 0
    /\ token_events = <<>>
    /\ NotFetchingCandles

\* a pass of one of the loops, told by the program counter and the count of
\* requests
LeverageStep ==
    /\ pc \in {"klines", "oi"}
    /\ pc' \in {pc, "returned"}
    /\ request_count' = request_count + 1

\* each fetch is one sequential control flow: a pass that can be taken is taken
SpecLeverage ==
    InitLeverage /\ [][NextLeverage]_vars /\ WF_<<pc, request_count>>(LeverageStep)

-----------------------------------------------------------------------------
(* get_hourly_funding_rates (leverage-data.py).  Times are whole hours from    *)
(* 2020-01-01T00:00 UTC and funding times are on the hour; the returned frame *)
(* is modelled by its funding records (the hourly rows resample('1H').ffill() *)
(* puts between them are left out).                                           *)

\* 'limit': 1000, and the test len(data) < 1000
FundingLimit == 1000
\* "Funding is every 8 hours"
FundingEvery == 8
\* (bound) how many hours before start_date the source's first funding record is
HistoryBefore == 16

\* the funding time of the source's k-th record
FundingTimeAt(k) == start_date - HistoryBefore + (k - 1) * FundingEvery

\* how many records the source holds with a funding time at or before e
FundingCount(e) ==
    IF e < FundingTimeAt(1) THEN 0
    ELSE (e - FundingTimeAt(1)) \div FundingEvery + 1

\* The body of a 200 response to endTime = e: the most recent `limit` records at
\* or before e, in the order the source lists them (mode).
FundingTimes(e) ==
    LET n == FundingCount(e)
        lo == IF n > FundingLimit THEN n - FundingLimit + 1 ELSE 1
    IN  [i \in 1..(n - lo + 1) |->
            IF mode = "descending" THEN FundingTimeAt(n - i + 1)
                                   ELSE FundingTimeAt(lo + i - 1)]

\* what the source can answer a fundingRate request with
FundingAnswers == {"page", "e429", "e500", "exception"}

\* how many records the for loop appends: those before the first record with
\* funding_time < self.start_date, where the loop breaks
BeforeBreak(data) ==
    IF \A i \in 1..Len(data) : data[i] >= start_date THEN Len(data)
    ELSE LET first == CHOOSE i \in 1..Len(data) :
                          /\ data[i] < start_date
                          /\ \A j \in 1..(i - 1) : data[j] >= start_date
         IN  first - 1

\* end_time = int(oldest_time.timestamp() * 1000) - 1: the millisecond before
\* oldest_time, kept as the last whole hour before it
NextEndTime(oldest_time) == PandasTimestamp(oldest_time) - 1

\* df = df[df['timestamp'] >= self.start_date], drop_duplicates, sort_values; or
\* None when nothing was appended
FundingReturn(acc) ==
    /\ pc' = "returned"
    /\ result' = IF acc # <<>>
                 THEN Frame(SortValues(DropDuplicates(
                          SelectSeq(acc, LAMBDA r : r.timestamp >= start_date))))
                 ELSE None

\* A pass in which the response is 200 with records: they are appended up to the
\* first one before start_date; the loop ends when the last record of the page is
\* at or before start_date or the page is not full, and asks for the records
\* before the last record of the page otherwise.
FundingPage ==
    /\ pc = "funding"
    /\ \E kind \in FundingAnswers :
          LET data == FundingTimes(end_time)
              acc == all_funding \o [i \in 1..BeforeBreak(data) |->
                                         Candle(data[i], <<end_time>>)]
              oldest_time == data[Len(data)]
          IN  /\ kind = "page"
              /\ data # <<>>
              /\ log' = Append(log, Request(<<end_time>>, kind, all_funding))
              /\ all_funding' = acc
              /\ IF oldest_time <= start_date \/ Len(data) < FundingLimit
                 THEN /\ FundingReturn(acc)
                      /\ events' = Append(events, "request")
                      /\ end_time' = end_time
                 ELSE /\ end_time' = NextEndTime(oldest_time)
                      /\ events' = events \o <<"request", "sleep">>
                      /\ pc' = "funding"
                      /\ result' = result
    /\ request_count' = request_count + 1
    /\ UNCHANGED <<args, hist, paging, minting, script, cpFile, failFile, all_data,
                   current_start, retry_count, failed_requests, run, cpAtStart,
                   printed, utc_offset, all_klines, current_date, all_oi_data>>

\* A pass that ends in a break without records: the response is 200 with an empty
\* list, or any other status ("Error: .."), or the request raised.
FundingBreak ==
    /\ pc = "funding"
    /\ \E kind \in FundingAnswers :
          /\ kind = "page" => FundingTimes(end_time) = <<>>
          /\ log' = Append(log, Request(<<end_time>>, kind, all_funding))
          /\ events' = Append(events, "request")
          /\ FundingReturn(all_funding)
    /\ request_count' = request_count + 1
    /\ UNCHANGED <<args, hist, paging, minting, leverage, script, cpFile, failFile,
                   all_data, current_start, retry_count, failed_requests, run,
                   cpAtStart, printed>>

NextFunding ==
    \/ FundingPage
    \/ FundingBreak

\* the end_date up to which the source holds k records
FundingEnd(k) == start_date - HistoryBefore + (k - 1) * FundingEvery

\* The sources and ranges of the funding fetch, by the order of a page and the
\* number of records the source holds up to end_date: fewer than a page, a page
\* and two records, a page and a half, two pages and a half.  (A source that lists a page in ascending
\* order is asked again from one record earlier at every request, each page
\* appended whole: its long range is left out.)
FundingSetups ==
    {<<"ascending", FundingEnd(k)>> : k \in {FundingLimit \div 10, FundingLimit + 2}}
    \cup {<<"descending", FundingEnd(k)>> :
             k \in {FundingLimit \div 10, FundingLimit + 2,
                    FundingLimit + FundingLimit \div 2,
                    2 * FundingLimit + FundingLimit \div 2}}

\* get_hourly_funding_rates is called: all_funding = [],
\* end_time = int(self.end_date.timestamp() * 1000)
InitFunding ==
    /\ prog = "funding"
    /\ pc = "funding"
    /\ start_date = 0
    /\ \E su \in FundingSetups : mode = su[1] /\ end_date = su[2]
    /\ utc_offset \in UtcOffsets
    /\ end_time = DatetimeTimestamp(end_date)
    /\ all_funding = <<>>
    /\ current_start = start_date
    /\ current_date = start_date
    /\ all_klines = <<>>
    /\ all_oi_data = <<>>
    /\ start_block = 0
    /\ end_block = 0
    /\ max_events = 0
    /\ token_events = <<>>
    /\ granularity = OneDay
    /\ market = "complete"
    /\ script = <<>>
    /\ cpFile = NoFile
    /\ failFile = [exists |-> FALSE, lines |-> <<>>]
    /\ all_data = <<>>
    /\ request_count = 0
    /\ retry_count = 0
    /\ failed_requests = <<>>
    /\ result = None
    /\ run = 1
    /\ log = <<>>
    /\ cpAtStart = NoFile
    /\ printed = <<>>
    /\ prevLog = <<>>
    /\ saving = [run |-> 0, old |-> NoFile, new |-> NoFile]
    /\ events = <<>>
    /\ page = 1
    /\ has_more = TRUE
    /\ all_incidents = <<>>
    /\ pages_log = <<>>

SpecFunding == InitFunding /\ [][NextFunding]_vars

-----------------------------------------------------------------------------
(* fetch_token_events (mint.py): the mint events of a token, fetched by chunks *)
(* of blocks                                                                  *)

\* chunk_size = 500
ChunkSize == 500
\* "page-size": 100
PageSize == 100
\* max_events: int = 1000
MaxEventsDefault == 1000
\* (bound) a smaller max_events passed by a caller
SmallMaxEvents == 150
\* (bound) how many chunks the long block range holds
LongChunks == 12

\* What make_request returns for a chunk: a response whose items are all mint
\* events, as many as the page size ("full") or half of it ("half"), or one mint
\* event among other events ("one"), or no mint event ("none"); or None, after an
\* error status, an exception or the last timeout ("failed").
ChunkAnswers == {"full", "half", "one", "none", "failed"}

\* the answers of a token that is minted in every chunk, when the source answers
BusyAnswers == {"full", "half"}

\* how many mint events (Transfer from the zero address, value > 0) the items hold
Mints(kind) ==
    CASE kind = "full" -> PageSize
      [] kind = "half" -> PageSize \div 2
      [] kind = "one"  -> 1
      [] OTHER         -> 0

\* current_end = min(current_start + chunk_size, end_block)
ChunkEnd(cs) == Min(cs + ChunkSize, end_block)

\* One pass of the loop: the chunk is requested, the mint events of the response
\* are appended, current_start = current_end + 1, sleep(0.2); then the loop test
\* `while current_start < end_block and len(events) < max_events`, and the return.
FetchChunk ==
    /\ pc = "minting"
    /\ \E kind \in (IF market = "busy" THEN BusyAnswers ELSE ChunkAnswers) :
          LET current_end == ChunkEnd(current_start)
              found == [i \in 1..Mints(kind) |->
                          [block |-> current_start, tx |-> i,
                           src |-> <<current_start, current_end>>]]
              evs == token_events \o found
          IN  /\ log' = Append(log, Request(<<current_start, current_end>>, kind,
                                            token_events))
              /\ events' = events \o <<"request", "sleep">>
              /\ token_events' = evs
              /\ current_start' = current_end + 1
              /\ IF current_end + 1 < end_block /\ Len(evs) < max_events
                 THEN pc' = "minting" /\ result' = result
                 ELSE pc' = "returned" /\ result' = Frame(evs)
    /\ request_count' = request_count + 1
    /\ UNCHANGED <<args, hist, paging, leverage, script, cpFile, failFile, all_data,
                   retry_count, failed_requests, run, cpAtStart, printed,
                   start_block, end_block, max_events>>

NextMint == FetchChunk

\* The calls: a token minted in every chunk, over a long block range, with the
\* default max_events; and any token over a short range (of one block, of one
\* chunk less a block, of one chunk, of two chunks, of two chunks and ten blocks)
\* with max_events of 1 and of SmallMaxEvents.
MintSetups ==
    {[market |-> "busy", blocks |-> LongChunks * (ChunkSize + 1) + 10,
      max_events |-> MaxEventsDefault]}
    \cup {[market |-> "quiet", blocks |-> b, max_events |-> m] :
             b \in {1, ChunkSize, ChunkSize + 1, 2 * (ChunkSize + 1),
                    2 * (ChunkSize + 1) + 10},
             m \in {1, SmallMaxEvents}}

\* a block number the range starts at
FirstBlock == 20000000

\* fetch_token_events is called with start_block < end_block: events = [],
\* current_start = start_block
InitMint ==
    /\ prog = "mint"
    /\ pc = "minting"
    /\ start_block = FirstBlock
    /\ \E su \in MintSetups :
          /\ market = su.market
          /\ end_block = start_block + su.blocks
          /\ max_events = su.max_events
    /\ current_start = start_block
    /\ token_events = <<>>
    /\ start_date = 0
    /\ end_date = 0
    /\ utc_offset = 0
    /\ all_klines = <<>>
    /\ current_date = 0
    /\ all_oi_data = <<>>
    /\ end_time = 0
    /\ all_funding = <<>>
    /\ granularity = OneDay
    /\ mode = "exact"
    /\ script = <<>>
    /\ cpFile = NoFile
    /\ failFile = [exists |-> FALSE, lines |-> <<>>]
    /\ all_data = <<>>
    /\ request_count = 0
    /\ retry_count = 0
    /\ failed_requests = <<>>
    /\ result = None
    /\ run = 1
    /\ log = <<>>
    /\ cpAtStart = NoFile
    /\ printed = <<>>
    /\ prevLog = <<>>
    /\ saving = [run |-> 0, old |-> NoFile, new |-> NoFile]
    /\ events = <<>>
    /\ page = 1
    /\ has_more = TRUE
    /\ all_incidents = <<>>
    /\ pages_log = <<>>

SpecMint == InitMint /\ [][NextMint]_vars

-----------------------------------------------------------------------------
(* Properties *)

\* the timestamp and value columns of a frame (the history field left out)
Table(rows) == [i \in 1..Len(rows) |-> <<rows[i].timestamp, rows[i].close>>]

StrictlyAscending(rows) ==
    \A i \in 1..(Len(rows) - 1) : rows[i].timestamp < rows[i + 1].timestamp

\* C1: whenever the bulk fetch returns a data frame, its rows are in strictly
\* ascending timestamp order, so no two rows share a timestamp, whatever the
\* windows' answers were and whatever the checkpoint held.
C1_ResultSortedNoDuplicates ==
    (pc = "done" /\ ~result.none) => StrictlyAscending(result.rows)

\* C1 witness: a run returned a frame although the frames it had accumulated,
\* among them one loaded from the checkpoint, held the same timestamp more than
\* once and responses of consecutive windows overlapped.
C1_Witness ==
    /\ pc = "done"
    /\ ~result.none
    /\ cpAtStart.exists
    /\ Len(all_data) >= 3
    /\ Len(result.rows) < Len(Concat(all_data))
    /\ \E i \in 2..(Len(all_data) - 1) :
          Timestamps(all_data[i]) \cap Timestamps(all_data[i + 1]) # {}

\* The frames one uninterrupted run over [start_date, end_date) accumulates when
\* the source answers every request with candles: the windows start a batch apart.
UninterruptedFrames ==
    LET n == CeilDiv(end_date - start_date, BatchSeconds)
        ws(i) == start_date + (i - 1) * BatchSeconds
        dfs == [i \in 1..n |-> FetchCandles(ws(i), CurrentEnd(ws(i)), "ok")]
        got == SelectSeq(dfs, LAMBDA df : ~df.none)
    IN  [i \in 1..Len(got) |-> got[i].rows]

\* the candles the source holds in [a, b), oldest first
MarketTable(a, b) ==
    LET lo == CeilDiv(a, granularity)
        hi == CeilDiv(b, granularity) - 1
        ts == SelectSeq([j \in 1..(hi - lo + 1) |-> (lo + j - 1) * granularity],
                        LAMBDA t : HasCandle(t))
    IN  [i \in 1..Len(ts) |-> <<ts[i], Price(ts[i])>>]

\* the checkpoint this run found holds the records of [start_date, K) for some K
\* (it has rows, and every candle the source holds up to its last row)
CheckpointHoldsPrefix ==
    /\ cpAtStart.exists
    /\ cpAtStart.parseable
    /\ cpAtStart.lines # <<>>
    /\ LET rows == ReadCsv(cpAtStart)
       IN  Table(rows) = MarketTable(start_date, MaxTimestamp(rows) + granularity)

Entries(n) == SelectSeq(log, LAMBDA e : e.n = n)

\* the window numbered n, as (current_start, current_end)
WindowOf(n) == <<Entries(n)[1].start, Entries(n)[1].end>>

\* What the source answered the requests for window n with, followed by what it
\* would answer further requests for it with (after that: candles, if it has any).
Plan(n) ==
    [i \in 1..Len(Entries(n)) |-> Entries(n)[i].kind]
        \o (IF n \in DOMAIN script THEN script[n] ELSE <<>>)

\* the source fails the first k requests for window n
FailsFirst(n, k) ==
    /\ Len(Plan(n)) >= k
    /\ \A i \in 1..k : Plan(n)[i] \in FaultKinds

\* the source fails the requests for window n exactly k times in a row and then
\* answers with candles
FailsThenSucceeds(n, k) ==
    /\ Entries(n) # <<>>
    /\ FailsFirst(n, k)
    /\ IF Len(Plan(n)) > k
       THEN Plan(n)[k + 1] = "ok"
       ELSE SourceCandles(WindowOf(n)[1], WindowOf(n)[2]) # <<>>

Failed(n) == \E i \in 1..Len(failed_requests) : failed_requests[i] = WindowOf(n)

\* every candle the source holds for window n is in the result
InResult(n) ==
    /\ ~result.none
    /\ \A i \in 1..Len(SourceCandles(WindowOf(n)[1], WindowOf(n)[2])) :
          SourceCandles(WindowOf(n)[1], WindowOf(n)[2])[i] \in Timestamps(result.rows)

LaterWindowsRequested(n) ==
    \A j \in 0..CeilDiv(end_date - WindowOf(n)[2], BatchSeconds) :
        LET st == WindowOf(n)[2] + j * BatchSeconds
        IN  st < end_date
               => \E i \in 1..Len(log) :
                     /\ log[i].start = st
                     /\ log[i].end = Min(st + BatchSeconds, end_date)

\* C4: a window whose requests the source fails MaxRetries + 1 times in a row is in
\* failed_requests, every later window of the range is requested, and the result
\* holds no row obtained from that window.
C4_FailedWindowSkipped ==
    pc = "done" =>
        \A n \in 1..request_count :
            FailsFirst(n, MaxRetries + 1)
                => /\ Failed(n)
                   /\ LaterWindowsRequested(n)
                   /\ \A i \in 1..Len(result.rows) :
                         result.rows[i].src # <<WindowOf(n)[1]>>

\* C4 witness: a completed run with such a window that is not the last one, and
\* with rows from a later window in the result.
C4_Witness ==
    /\ pc = "done"
    /\ \E n \in 1..request_count :
          /\ FailsFirst(n, MaxRetries + 1)
          /\ Failed(n)
          /\ WindowOf(n)[2] < end_date
          /\ \E i \in 1..Len(result.rows) :
                result.rows[i].src = <<WindowOf(n)[2]>>

\* C5: a window answered with any number of consecutive 429s and then candles is
\* fetched: its records are in the result and it is not in failed_requests.
C5_RateLimitNotCounted ==
    pc = "done" =>
        \A n \in 1..request_count :
            \A k \in 1..Len(Plan(n)) :
                (FailsThenSucceeds(n, k) /\ \A i \in 1..k : Plan(n)[i] = "e429")
                    => /\ ~Failed(n)
                       /\ InResult(n)

\* C6: a checkpoint file that cannot be parsed does not crash the run; the run
\* discards it and starts at start_date with an empty accumulator.
C6_CorruptCheckpointFreshRun ==
    (pc # "init" /\ prog = "btc" /\ cpAtStart.exists /\ ~cpAtStart.parseable)
        => /\ pc # "crashed"
           /\ (pc = "fetching" /\ log = <<>>)
                 => (all_data = <<>> /\ current_start = start_date)

\* the timestamps and values written in the checkpoint file this run found
FileTable ==
    [i \in 1..Len(cpAtStart.lines) |->
        <<cpAtStart.lines[i].timestamp[1] * 86400 + cpAtStart.lines[i].timestamp[2],
          cpAtStart.lines[i].close>>]

LargestInFile ==
    CHOOSE m \in {FileTable[i][1] : i \in 1..Len(FileTable)} :
        \A i \in 1..Len(FileTable) : FileTable[i][1] <= m

CheckpointLoaded ==
    prog = "btc" /\ cpAtStart.exists /\ cpAtStart.parseable

\* the run is at its first request
AtFirstRequest == pc = "fetching" /\ log = <<>>

\* C7: with a checkpoint, the first window requested starts at the largest
\* checkpointed timestamp plus the granularity and the accumulator starts as the
\* checkpoint's records; without one, the first window starts at start_date and
\* the accumulator starts empty.
C7_ResumePoint ==
    pc \in {"fetching", "done", "killed"} =>
        /\ (CheckpointLoaded /\ cpAtStart.lines # <<>>)
              => /\ log # <<>> => log[1].start = LargestInFile + granularity
                 /\ AtFirstRequest
                       => /\ current_start = LargestInFile + granularity
                          /\ Len(all_data) = 1
                          /\ Table(all_data[1]) = FileTable
        /\ ~(prog = "btc" /\ cpAtStart.exists)
              => /\ log # <<>> => log[1].start = start_date
                 /\ AtFirstRequest
                       => (current_start = start_date /\ all_data = <<>>)

\* C7 witness: a run that loaded a checkpoint with rows has sent its first
\* request, for a window after start_date.
C7_Witness ==
    /\ CheckpointLoaded
    /\ cpAtStart.lines # <<>>
    /\ pc = "fetching"
    /\ Len(log) = 1
    /\ log[1].start > start_date
    /\ Len(Concat(all_data)) >= Len(cpAtStart.lines)

\* non-decreasing keys and no key twice
WellFormedFile ==
    \A i \in 1..(Len(FileTable) - 1) : FileTable[i][1] < FileTable[i + 1][1]

\* C8: a parseable checkpoint that is not well-formed is treated as invalid: none
\* of its rows enters the accumulator and the run starts from start_date.
C8_IllFormedCheckpointDiscarded ==
    (AtFirstRequest /\ CheckpointLoaded /\ ~WellFormedFile)
        => (all_data = <<>> /\ current_start = start_date)

\* where the windows of this run begin
EffectiveStart ==
    IF CheckpointLoaded
    THEN IF cpAtStart.lines = <<>> THEN NaT ELSE LargestInFile + granularity
    ELSE start_date

\* C9: the windows are requested in increasing order; each is non-empty and spans
\* at most 300 candles; each starts where the one before ended; all but the last
\* span exactly 300 candles; at the end of the run they cover
\* [EffectiveStart, end_date) and number
\* ceil((end_date - EffectiveStart) / (300 * granularity)): 1 for the 31-day range
\* and 2 (300 days, then 66 days) for the 366-day range.
C9_Windows ==
    LET span == MaxPerRequest * granularity
        last == log[Len(log)]
    IN  pc \in {"fetching", "done", "killed"} =>
        /\ \A i \in 1..Len(log) :
              /\ log[i].start < log[i].end
              /\ log[i].end - log[i].start <= span
        /\ log # <<>> => (log[1].n = 1 /\ log[1].start = EffectiveStart)
        /\ \A i \in 1..(Len(log) - 1) :
              \/ /\ log[i + 1].n = log[i].n
                 /\ log[i + 1].start = log[i].start
                 /\ log[i + 1].end = log[i].end
              \/ /\ log[i + 1].n = log[i].n + 1
                 /\ log[i + 1].start = log[i].end
                 /\ log[i].end - log[i].start = span
        /\ pc = "done" =>
              IF log = <<>>
              THEN ~Before(EffectiveStart, end_date)
              ELSE /\ last.end = end_date
                   /\ last.n = CeilDiv(end_date - EffectiveStart, span)
        /\ (pc = "done" /\ prog = "eth" /\ end_date - start_date = 31 * OneDay)
              => (last.n = 1 /\ last.start = start_date)
        /\ (pc = "done" /\ prog = "eth" /\ end_date - start_date = 366 * OneDay)
              => /\ last.n = 2
                 /\ log[1].end - log[1].start = 300 * OneDay
                 /\ last.end - last.start = 66 * OneDay

\* C9 witness: the 366-day daily run has completed after two windows, one of
\* them requested more than once.
C9_Witness ==
    /\ pc = "done"
    /\ prog = "eth"
    /\ end_date - start_date = 366 * OneDay
    /\ log[Len(log)].n = 2
    /\ Len(log) > 2

Reported(w) ==
    \/ /\ failFile.exists
       /\ \E i \in 1..Len(failFile.lines) : failFile.lines[i] = w
    \/ \E i \in 1..Len(printed) :
          \/ printed[i].msg = "failed" /\ printed[i].window = w
          \/ printed[i].msg = "warning" /\ printed[i].count = Len(failed_requests)

\* C11: at the end of a run every window whose retries were exhausted is reported
\* (in the failed-requests file or in the printed output), whatever the outcome of
\* the other windows.
C11_FailedWindowsReported ==
    pc = "done" =>
        \A i \in 1..Len(failed_requests) : Reported(failed_requests[i])

\* the loop has just left the window numbered n and has sent nothing for the next
JustLeft(n) ==
    /\ pc = "fetching"
    /\ request_count = n + 1
    /\ Entries(n + 1) = <<>>

\* C12: each time a further CheckpointInterval windows have been processed,
\* whatever their outcome, the checkpoint file has been rewritten and holds every
\* record accumulated so far, de-duplicated and sorted.
C12_CheckpointEveryInterval ==
    \A n \in 1..request_count :
        (prog = "btc" /\ n % CheckpointInterval = 0 /\ JustLeft(n))
            => cpFile = ToCsv(Combine(all_data))

\* the windows the terminated run had fetched (the requests answered with candles)
FetchedBefore == SelectSeq(prevLog, LAMBDA e : e.kind = "ok")

\* this run has sent a request for a range that overlaps the range of e
RequestedAgain(e) ==
    \E j \in 1..Len(log) : log[j].start < e.end /\ e.start < log[j].end

\* C13: a run restarted after a termination between two requests requests again
\* at most CheckpointInterval of the windows the terminated run had fetched.
C13_AtMostIntervalRefetched ==
    run > 1 =>
        Cardinality({i \in 1..Len(FetchedBefore) : RequestedAgain(FetchedBefore[i])})
            <= CheckpointInterval

\* C14: checkpoint writes are atomic.  After a kill that came while the
\* checkpoint was being written, the checkpoint file is the complete previous
\* checkpoint or the complete new one.
C14_AtomicCheckpointWrite ==
    (pc = "killed" /\ saving.run = run) => cpFile \in {saving.old, saving.new}

\* this run has written the checkpoint file
CheckpointSaved ==
    \E i \in 1..Len(log) : log[i].n % CheckpointInterval = 0 /\ log[i].kind = "ok"

\* the run has requested every window from its starting point to end_date
AllWindowsRequested ==
    IF log = <<>> THEN ~Before(EffectiveStart, end_date)
    ELSE log[Len(log)].end = end_date

C16_SleepBetweenRequests ==
    \A i \in 1..(Len(events) - 1) :
        ~(events[i] = "request" /\ events[i + 1] = "request")

\* C17: a window whose request is answered with a 4xx status other than 429 is
\* abandoned after that single request, is in failed_requests, and the run goes on
\* with the next window.
C17_ClientErrorFatal ==
    pc = "done" =>
        \A n \in 1..request_count :
            (Entries(n) # <<>> /\ Entries(n)[1].kind = "e404")
                => /\ Len(Entries(n)) = 1
                   /\ Failed(n)
                   /\ LaterWindowsRequested(n)

\* C18: a call with start_date >= end_date fails with an error: the run does not
\* complete, no request is sent, and the checkpoint file is not read, not removed
\* and not returned as the result.
C18_InvalidRangeRejected ==
    start_date >= end_date =>
        /\ pc # "done"
        /\ log = <<>>
        /\ all_data = <<>>
        /\ result.none
        /\ pc # "init" => cpFile = cpAtStart

\* the requests of this run obey the loop's progress rules: no window is
\* requested more than MaxRetries times, a later window starts after an earlier
\* one, and no request is for a range that overlaps a window left earlier
Progress ==
    /\ \A n \in 1..request_count : Len(Entries(n)) <= MaxRetries
    /\ \A i \in 1..Len(log) : \A j \in (i + 1)..Len(log) :
          \/ log[j].n = log[i].n /\ log[j].start = log[i].start
          \/ /\ log[j].n > log[i].n
             /\ log[j].start > log[i].start
             /\ log[j].start >= log[i].end

\* C19: a run that has entered the fetch loop ends with the result returned
\* (unless the process is terminated), whatever the source answers: the window
\* start strictly increases, a window is requested at most MaxRetries times, and
\* a window left is not requested again.
C19_Terminates ==
    /\ [](pc \in {"fetching", "done", "killed"} => Progress)
    /\ (pc = "fetching") ~> (pc \in {"done", "killed"})

\* C19 witness: a run has completed after one window was fetched at the last
\* attempt, another had failed every attempt, and a third was fetched at once.
C19_Witness ==
    /\ pc = "done"
    /\ failed_requests # <<>>
    /\ ~result.none
    /\ request_count >= 3
    /\ \E n \in 1..request_count : Len(Entries(n)) = MaxRetries

\* the incidents the request numbered i of the page fetch was answered with
Answered(i) == FetchIncidentsPage(pages_log[i].page, pages_log[i].kind)

\* the answers that held incidents, in the order of the requests
FetchedPages ==
    LET got == SelectSeq([i \in 1..Len(pages_log) |-> Answered(i)],
                         LAMBDA d : ~d.raised /\ d.incidents # <<>>)
    IN  [i \in 1..Len(got) |-> got[i].incidents]

PagesInOrder ==
    /\ pages_log # <<>> => pages_log[1].page = 1
    /\ \A i \in 1..(Len(pages_log) - 1) : pages_log[i].page < pages_log[i + 1].page
    /\ \A i \in 1..Len(pages_log) : pages_log[i].page <= MaxPages
    /\ Len(pages_log) <= MaxPages

\* a page that came back with fewer than 100 incidents, or none, is the last one
\* requested
StopsAtShortPage ==
    \A i \in 1..Len(pages_log) :
        (~Answered(i).raised /\ Len(Answered(i).incidents) < PerPage)
            => (i = Len(pages_log) /\ pc = "returned")

\* C20: fetch_all_incidents requests the pages in increasing order from page 1,
\* stops at the first page with fewer than 100 incidents, requests no page above
\* 50 and sends at most 50 requests, returns for every behaviour of the source,
\* and returns the incidents of the fetched pages concatenated in page order.
C20_PagedFetch ==
    /\ [](prog = "incidents" =>
            /\ PagesInOrder
            /\ StopsAtShortPage
            /\ pc = "returned" => all_incidents = Concat(FetchedPages))
    /\ (prog = "incidents") ~> (pc = "returned")

\* C20 witness: the fetch has returned after the request for page 50, the first
\* page having failed and every other page having been full.
C20_Witness ==
    /\ pc = "returned"
    /\ Len(pages_log) = MaxPages
    /\ pages_log[1].kind = "timeout"
    /\ pages_log[MaxPages].page = MaxPages
    /\ Len(all_incidents) = (MaxPages - 1) * PerPage

\* the bodies that are not JSON
Malformed == {"badjson", "badjson_simplejson"}

\* after the request numbered i the fetch goes on with the page after it
ContinuesAfter(i) ==
    IF i < Len(pages_log)
    THEN pages_log[i + 1].page = pages_log[i].page + 1
    ELSE pc = "paging" /\ has_more /\ page = pages_log[i].page + 1

\* C21: a page whose body cannot be parsed as JSON is a failed page and not the
\* end of the data: the fetch goes on with the page after it (below max_pages).
C21_MalformedPageIsFailedPage ==
    prog = "incidents" =>
        \A i \in 1..Len(pages_log) :
            (pages_log[i].kind \in Malformed /\ pages_log[i].page < MaxPages)
                => ContinuesAfter(i)

\* the requests numbered i - 2, i - 1 and i all failed
ThreeFailuresInARow(i) ==
    /\ i >= FailurePageLimit
    /\ \A j \in (i - FailurePageLimit + 1)..i : Answered(j).raised

\* C22: a failed page request is skipped and the fetch goes on with the next
\* page, unless it is the third failed request in a row: one failed page after
\* pages that were fetched does not stop the fetch, at any page number.
C22_StopsOnlyAfterThreeFailuresInARow ==
    prog = "incidents" =>
        \A i \in 1..Len(pages_log) :
            (Answered(i).raised /\ pages_log[i].page < MaxPages
                                /\ ~ThreeFailuresInARow(i))
                => ContinuesAfter(i)

\* the answers that are request errors: a transport failure, an error status (a
\* body that is not JSON is counted with them)
RequestErrors == {"e429", "e500", "e404", "timeout", "badjson"}

\* C25: a window is in failed_requests only if every request for it ended in a
\* request error; a window the source answers with an empty candle list is
\* requested once and is not in failed_requests.
C25_EmptyWindowNotFailed ==
    pc = "done" =>
        \A n \in 1..request_count :
            Entries(n) # <<>> =>
                /\ Failed(n) =>
                      \A i \in 1..Len(Entries(n)) : Entries(n)[i].kind \in RequestErrors
                /\ Entries(n)[1].kind = "empty" =>
                      (Len(Entries(n)) = 1 /\ ~Failed(n))

\* C26: over a source that returns only candles of the requested window
\* [start, end), every row of the result of a fetch over a range with
\* start_date < end_date has its timestamp in [start_date, end_date), also when
\* the run found a checkpoint file at its start.
C26_ResultInRange ==
    (pc = "done" /\ ~result.none /\ mode = "exact" /\ start_date < end_date) =>
        \A i \in 1..Len(result.rows) :
            /\ start_date <= result.rows[i].timestamp
            /\ result.rows[i].timestamp < end_date

\* the answers that are a failed request: an error status other than 429, or an
\* exception raised by the request
FailedAnswers == {"e500", "exception"}

\* C23: in get_hourly_klines a failed request does not end the fetch: a later
\* request follows it (unless the failed request could reach end_date).
C23_KlinesFailureDoesNotEndFetch ==
    (prog = "klines" /\ pc = "returned") =>
        \A i \in 1..Len(log) :
            (log[i].kind \in FailedAnswers
               /\ log[i].window[1] + KlinesLimit * OneHour < end_date)
                => i < Len(log)

\* the request the loop is about to send, and the records its accumulator holds
Upcoming ==
    IF prog = "klines"
    THEN [window |-> <<StartMs(current_start, all_klines)>>, held |-> Len(all_klines)]
    ELSE [window |-> OiWindow(current_date), held |-> Len(all_oi_data)]

\* C24: in get_hourly_klines and get_hourly_open_interest a 429 response is
\* followed by the cool-down sleep and then by a request for the same times, with
\* nothing added to the accumulator; this holds after any number of 429s in a
\* row (the fetch never gives the window up).
C24_RateLimitedSameWindow ==
    prog \in {"klines", "oi"} =>
        \A i \in 1..Len(log) :
            log[i].kind = "e429" =>
                /\ Len(events) >= 2 * i
                /\ events[2 * i - 1] = "request"
                /\ events[2 * i] = "cooldown"
                /\ IF i < Len(log)
                   THEN /\ log[i + 1].window = log[i].window
                        /\ log[i + 1].held = log[i].held
                   ELSE /\ pc = prog
                        /\ Upcoming.window = log[i].window
                        /\ Upcoming.held = log[i].held

\* C24 witness: get_hourly_open_interest has returned after the source answered
\* the second chunk with 429 three times in a row and then with data.
C24_Witness ==
    /\ prog = "oi"
    /\ pc = "returned"
    /\ Len(log) >= 5
    /\ \A i \in 2..4 : log[i].kind = "e429"
    /\ log[5].kind = "edges"
    /\ log[5].window = log[2].window
    /\ log[5].window # log[1].window

\* the klines of the response to the request numbered i
AnsweredKlines(i) == KlineTimes(log[i].window[1], log[i].kind)

\* after every 200 response with klines the next startTime is the last returned
\* candle time plus one hour and is greater than the startTime just requested
KlinesAdvance ==
    \A i \in 1..Len(log) :
        AnsweredKlines(i) # <<>> =>
            LET last == AnsweredKlines(i)[Len(AnsweredKlines(i))]
                next == IF i < Len(log) THEN log[i + 1].window[1]
                        ELSE StartMs(current_start, all_klines)
            IN  /\ next = last + OneHour
                /\ next > log[i].window[1]

\* C27: get_hourly_klines returns when the source answers 429 only finitely many
\* times: after every successful response with klines the next startTime is the
\* last returned candle time plus one hour and is strictly greater than the
\* startTime just requested, for every response the source gives.
C27_KlinesTerminates ==
    /\ [](prog = "klines" => KlinesAdvance)
    /\ (prog = "klines") ~> (pc = "returned")

\* C27 witness: the fetch has returned with current_start at or past end_date,
\* after responses of one candle, 429 responses and responses with gaps.
C27_Witness ==
    /\ prog = "klines"
    /\ pc = "returned"
    /\ current_start >= end_date
    /\ Answers("single") = MaxSingles
    /\ Answers("e429") = MaxRateLimited
    /\ Answers("gap") >= 1
    /\ Answers("edges") >= 1

\* the page the request numbered i of the funding fetch was answered with
AnsweredFunding(i) ==
    IF log[i].kind = "page" THEN FundingTimes(log[i].window[1]) ELSE <<>>

\* every record of every fetched page with a funding time at or after start_date
\* is in the result
FundingRecordsKept ==
    pc = "returned" =>
        \A i \in 1..Len(log) : \A j \in 1..Len(AnsweredFunding(i)) :
            AnsweredFunding(i)[j] >= start_date
                => /\ ~result.none
                   /\ AnsweredFunding(i)[j] \in Timestamps(result.rows)

\* each request after the first has an endTime smaller than the one before
EndTimeDecreases ==
    \A i \in 1..(Len(log) - 1) : log[i + 1].window[1] < log[i].window[1]

\* C28: get_hourly_funding_rates puts into its result every record of every
\* fetched page whose fundingTime is at or after start_date, whatever the order of
\* the records in a page, and each request after the first uses an endTime
\* strictly smaller than the previous one.
C28_FundingRecordsKept ==
    prog = "funding" => (FundingRecordsKept /\ EndTimeDecreases)

\* the chunk the request numbered i asked for, as (starting-block, ending-block)
Chunk(i) == log[i].window

\* the chunks are issued in increasing order and no two share a block
ChunksDisjointIncreasing ==
    \A i \in 1..(Len(log) - 1) : Chunk(i)[2] < Chunk(i + 1)[1]

\* a chunk ends at most 500 blocks beyond its start, and not before it
ChunksBounded ==
    \A i \in 1..Len(log) :
        /\ Chunk(i)[1] <= Chunk(i)[2]
        /\ Chunk(i)[2] - Chunk(i)[1] <= ChunkSize

\* every block from start_block to end_block inclusive is in a chunk requested
ChunksCover ==
    \A b \in start_block..end_block :
        \E i \in 1..Len(log) : Chunk(i)[1] <= b /\ b <= Chunk(i)[2]

\* C29: the chunks fetch_token_events requests are pairwise disjoint, in
\* increasing order, each at most 500 blocks beyond its start, and, when the fetch
\* has returned without reaching max_events, together contain every block from
\* start_block to end_block inclusive.
C29_ChunksPartitionRange ==
    prog = "mint" =>
        /\ ChunksDisjointIncreasing
        /\ ChunksBounded
        /\ (pc = "returned" /\ Len(token_events) < max_events) => ChunksCover

\* C30: fetch_token_events returns at most max_events mint events.
C30_AtMostMaxEvents ==
    (prog = "mint" /\ pc = "returned") => Len(result.rows) <= max_events

=============================================================================
